---- MODULE Spec2Model ----
(***************************************************************************)
(* Model of perceval/backends/core/stackexchange.py: the StackExchange     *)
(* backend (constructor, fetch, fetch_items, parse_questions) and its      *)
(* client (get_questions, __build_payload, sanitize_for_archive).          *)
(*                                                                         *)
(* The three nested generators (fetch_items -> parse_questions,            *)
(* fetch_items -> get_questions) run on one thread and are driven by the   *)
(* consumer's next(): `demand` is TRUE while a next() is being served.     *)
(***************************************************************************)
EXTENDS Integers, Sequences, FiniteSets, TLC

\* ------------------------------------------------------------ bounds
\* The remote holds at most MaxPages pages, each of at most MaxItems items.
MaxPages == 3
MaxItems == 2
\* Instants are counted in ticks; an instant lies within MaxTick ticks of
\* the epoch and a second holds TicksPerSecond ticks.
MaxTick == 3
TicksPerSecond == 2
MaxId == 12
MaxIdCalls == 2

\* ------------------------------------------------------------ constants
MAX_QUESTIONS == 100
CATEGORY_QUESTION == "question"
VQUESTIONS_FILTER == "Bf*y*ByQD_upZqozgU6lXL_62USGOoV3)MFNgiHqHpmO_Y-jHR"
PPAGE == "page"
PPAGESIZE == "pagesize"
PORDER == "order"
PSORT == "sort"
PTAGGED == "tagged"
PSITE == "site"
PKEY == "key"
PFILTER == "filter"
PMIN == "min"
PACCESSTOKEN == "access_token"

\* Python's None, for the values that are strings when set.
None == "<None>"

\* ------------------------------------------------------------ values
\* Python truthiness of a str-or-None value: None and '' are falsy.
Truthy(v) == v \notin {None, ""}

\* A datetime: wall-clock ticks and tzinfo (<<>> naive, <<o>> an offset of
\* o seconds east of UTC).  NoDate is a from_date of None, EmptyDate an
\* empty (falsy, non-None) one.
NoDate == [kind |-> "none"]
EmptyDate == [kind |-> "empty"]
Datetime(w, z) == [kind |-> "datetime", wall |-> w, tz |-> z]

\* bool(from_date): a datetime object is always true, None and '' are not.
TruthyDate(d) == d.kind = "datetime"

\* perceval.utils.DEFAULT_DATETIME: 1970-01-01 00:00:00 UTC.
DEFAULT_DATETIME == Datetime(0, <<0>>)

\* grimoirelab_toolkit.datetime.datetime_to_utc: a naive datetime is taken
\* as UTC, an aware one is moved to UTC.
datetime_to_utc(d) ==
  IF d.tz = <<>> THEN Datetime(d.wall, <<0>>)
  ELSE Datetime(d.wall - d.tz[1] * TicksPerSecond, <<0>>)

\* datetime.timestamp() of an aware datetime, in ticks since the epoch.
TimestampTicks(d) == d.wall - d.tz[1] * TicksPerSecond

\* math.floor in the place of int: rounds toward minus infinity.
IntOfTicks_Floor(t) == t \div TicksPerSecond

\* int(x) of the float x = t / TicksPerSecond: truncation toward zero.
IntOfTicks(t) ==
  IF t >= 0 THEN t \div TicksPerSecond ELSE -((-t) \div TicksPerSecond)

\* ------------------------------------------------------------ inputs
\* api_token / access_token handed to the constructor.
TokenValues == {None, "", "aaa"}
AccessTokenValues == {None, "", "bbb"}

\* from_date handed to fetch: left out, None, empty, or a datetime (UTC,
\* naive, or one second east of UTC).
Missing == [kind |-> "missing"]
Walls == (0 - MaxTick)..MaxTick
FromDates ==
  {Missing, NoDate, EmptyDate}
    \cup {Datetime(w, <<0>>) : w \in Walls}
    \cup {Datetime(w, <<>>) : w \in {0 - MaxTick, MaxTick}}
    \cup {Datetime(w, <<1>>) : w \in {0 - 1, 0, TicksPerSecond + 1}}

\* The since-argument counts as unset when it is left out, None, empty, or
\* the default sentinel itself.
Unset(arg) == arg \in {Missing, NoDate, EmptyDate, DEFAULT_DATETIME}

\* backoff of an envelope: <<>> when the field is absent, <<b>> otherwise.
Backoffs == {<<>>, <<0>>, <<2>>}
BackoffTruthy(b) == b # <<>> /\ b[1] # 0
BackoffSecs(b) == IF b = <<>> THEN 0 ELSE b[1]

\* The counters of an envelope: quota_remaining, quota_max, page_size, total.
\* DefaultCounters is what a remote with a full quota and more questions than
\* any traversal here reads reports; Counters are the values a remote may
\* report otherwise, total = 0 and a page_size above total among them.
DefaultCounters ==
  [quota_remaining |-> 1, quota_max |-> 1, page_size |-> MaxItems,
   total |-> MaxPages * MaxItems]
Counters ==
  {[quota_remaining |-> q[1], quota_max |-> q[2], page_size |-> ps,
    total |-> t] :
     q \in {<<0, 1>>, <<1, 2>>}, ps \in {0, MaxItems}, t \in {0, 1}}

\* What the transport can answer to the request for page p:
\*   "error"      the transport raises (network error, non-success status)
\*   "malformed"  a body that is not JSON (n well-formed items precede the
\*                damage)
\*   "noitems"    a JSON envelope without the 'items' list
\*   "ok"         a JSON envelope with n items
\* has_more may be true only below MaxPages.
Responses(p) ==
  {[kind |-> "error", has_more |-> FALSE, backoff |-> <<>>, n |-> 0,
    counters |-> DefaultCounters]}
    \cup {[kind |-> "malformed", has_more |-> FALSE, backoff |-> <<>>, n |-> n,
            counters |-> DefaultCounters] :
            n \in 0..MaxItems}
    \cup {[kind |-> "ok", has_more |-> h, backoff |-> b, n |-> n,
            counters |-> DefaultCounters] :
            h \in {x \in BOOLEAN : x => p < MaxPages},
            b \in Backoffs, n \in 0..MaxItems}
    \cup {[kind |-> "noitems", has_more |-> h, backoff |-> b, n |-> 0,
            counters |-> DefaultCounters] :
            h \in {x \in BOOLEAN : x => p < MaxPages}, b \in Backoffs}

\* ------------------------------------------------------------ state
VARIABLES
  bstate,       \* backend: "new", "ready" (constructed), "config_error"
  api_token,    \* StackExchange.api_token
  access_token, \* StackExchange.access_token
  client,       \* StackExchange.client: <<>> (None) or <<client record>>
  since_arg,    \* from_date as handed to fetch
  from_date,    \* from_date as handed on to fetch_items / get_questions
  stream,       \* the item generator: "none", "open", "exhausted", "raised"
  error,        \* what was raised: "", "transport", "parse"
  demand,       \* a next() of the consumer is being served
  gq,           \* get_questions: "none","start","loop","yielded","sleep","call","done","raised"
  page,         \* get_questions: page
  data,         \* get_questions: data (envelope of the last response)
  questions,    \* get_questions: questions, <<>> (None) or <<page id>>
  fi,           \* fetch_items / parse_questions: "none","load","items"
  cur,          \* page being parsed: [page, n, idx]
  delivered,    \* items handed to the consumer, <<page, index>> each
  calls,        \* transport calls: [payload, at]
  resps,        \* transport answers: [kind, has_more, backoff, n, at]
  sleeps,       \* time.sleep calls: [secs, at, before]
  clock,        \* virtual clock, advanced by time.sleep only
  log,          \* every event so far, in order: [ev, page, n]
  ctor,         \* <<arguments the constructor was called with>>
  live,         \* the payload mapping handed to sanitize_for_archive
  before,       \* <<its content before the call>>, <<>> before any call
  archived,     \* <<the payload returned>>, <<>> before any call
  items,        \* the items handed to metadata_id, <<>> when there are none
  ids,          \* per item, the strings metadata_id returned for it, in order
  tquestions,   \* get_questions: tquestions
  nquestions,   \* get_questions: nquestions
  logged        \* what __log_status wrote so far: [kind, a, b]

vars == <<bstate, api_token, access_token, client, since_arg, from_date,
          stream, error, demand, gq, page, data, questions, fi, cur,
          delivered, calls, resps, sleeps, clock, log, ctor, live, before,
          archived, items, ids, tquestions, nquestions, logged>>

backendVars == <<bstate, api_token, access_token, ctor>>
fetchVars == <<since_arg, from_date>>
archiveVars == <<live, before, archived>>
itemVars == <<items, ids>>
counterVars == <<tquestions, nquestions, logged>>
traceVars == <<calls, resps, sleeps, clock, log>>

NoData == [kind |-> "none", has_more |-> FALSE, backoff |-> <<>>, n |-> 0,
           counters |-> DefaultCounters]
NoCur == [page |-> 0, n |-> 0, idx |-> 0]

\* An entry of the log.
Event(e, p, n) == [ev |-> e, page |-> p, n |-> n]

\* ------------------------------------------------------------ payloads
\* dict.pop(k) on the mapping p.
Pop(p, k) == [x \in (DOMAIN p) \ {k} |-> p[x]]

\* __build_payload testing the timestamp and not the date
\* (`if timestamp:`): the epoch gets no min.
build_payload_NoMinAtEpoch(c, pg, fd) ==
  LET base == (PPAGE :> pg) @@ (PPAGESIZE :> c.max_questions)
                @@ (PORDER :> "asc") @@ (PSORT :> "activity")
                @@ (PTAGGED :> c.tagged) @@ (PSITE :> c.site)
                @@ (PKEY :> c.token) @@ (PFILTER :> VQUESTIONS_FILTER)
      withMin == IF TruthyDate(fd) /\ IntOfTicks(TimestampTicks(fd)) # 0
                 THEN (PMIN :> IntOfTicks(TimestampTicks(fd))) @@ base
                 ELSE base
  IN IF Truthy(c.access_token)
     THEN (PACCESSTOKEN :> c.access_token) @@ withMin
     ELSE withMin

\* __build_payload sending the since bound on the first page only.
build_payload_MinOnFirst(c, pg, fd) ==
  LET base == (PPAGE :> pg) @@ (PPAGESIZE :> c.max_questions)
                @@ (PORDER :> "asc") @@ (PSORT :> "activity")
                @@ (PTAGGED :> c.tagged) @@ (PSITE :> c.site)
                @@ (PKEY :> c.token) @@ (PFILTER :> VQUESTIONS_FILTER)
      withMin == IF TruthyDate(fd) /\ pg = 1
                 THEN (PMIN :> IntOfTicks(TimestampTicks(fd))) @@ base
                 ELSE base
  IN IF Truthy(c.access_token)
     THEN (PACCESSTOKEN :> c.access_token) @@ withMin
     ELSE withMin

\* StackExchangeClient.__build_payload(page, from_date) of the client c.
build_payload(c, pg, fd) ==
  LET base == (PPAGE :> pg) @@ (PPAGESIZE :> c.max_questions)
                @@ (PORDER :> "asc") @@ (PSORT :> "activity")
                @@ (PTAGGED :> c.tagged) @@ (PSITE :> c.site)
                @@ (PKEY :> c.token) @@ (PFILTER :> VQUESTIONS_FILTER)
      withMin == IF TruthyDate(fd)
                 THEN (PMIN :> IntOfTicks(TimestampTicks(fd))) @@ base
                 ELSE base
  IN IF Truthy(c.access_token)
     THEN (PACCESSTOKEN :> c.access_token) @@ withMin
     ELSE withMin

\* sanitize_for_archive without its second pop: access_token stays.
sanitize_KeepsAccessToken(payload) ==
  IF PKEY \in DOMAIN payload THEN Pop(payload, PKEY) ELSE payload

\* sanitize_for_archive popping PPAGE where PKEY is meant.
sanitize_PopsPage(payload) ==
  LET p0 == IF PPAGE \in DOMAIN payload THEN Pop(payload, PPAGE) ELSE payload
      p1 == IF PKEY \in DOMAIN p0 THEN Pop(p0, PKEY) ELSE p0
  IN IF PACCESSTOKEN \in DOMAIN p1 THEN Pop(p1, PACCESSTOKEN) ELSE p1

\* StackExchangeClient.sanitize_for_archive: the content of the mapping
\* `payload` once both pops are done.  The mapping is changed in place and
\* the same mapping is returned.
sanitize_for_archive(payload) ==
  LET p1 == IF PKEY \in DOMAIN payload THEN Pop(payload, PKEY) ELSE payload
  IN IF PACCESSTOKEN \in DOMAIN p1 THEN Pop(p1, PACCESSTOKEN) ELSE p1

\* _init_client handing the access token but not the app key to the client.
init_client_DropsKey(tok, atok) ==
  [site |-> "stackoverflow", tagged |-> None, token |-> None,
   access_token |-> atok, max_questions |-> MAX_QUESTIONS]

\* StackExchange._init_client: the client gets the backend's credentials.
init_client(tok, atok) ==
  [site |-> "stackoverflow", tagged |-> None, token |-> tok,
   access_token |-> atok, max_questions |-> MAX_QUESTIONS]

\* __init__ testing `api_token is None` and not `not api_token`.
InitRaises_NoneOnly(tok, atok) == tok = None /\ Truthy(atok)

\* StackExchange.__init__ raises when access_token is given without
\* api_token.
InitRaises(tok, atok) == ~Truthy(tok) /\ Truthy(atok)

\* fetch without `if not from_date: from_date = DEFAULT_DATETIME`: an unset
\* from_date reaches the client as None.
NormalizeFromDate_NoDefault(arg) ==
  IF arg = Missing \/ ~TruthyDate(arg) THEN NoDate ELSE datetime_to_utc(arg)

\* StackExchange.fetch: from_date as it reaches fetch_items.
NormalizeFromDate(arg) ==
  LET given == IF arg = Missing THEN DEFAULT_DATETIME ELSE arg
      dated == IF ~TruthyDate(given) THEN DEFAULT_DATETIME ELSE given
  IN datetime_to_utc(dated)

\* str(n) of an integer n >= 0: its decimal digits, most significant first.
DigitChars == <<"0", "1", "2", "3", "4", "5", "6", "7", "8", "9">>
RECURSIVE str(_)
str(n) ==
  IF n < 10 THEN <<DigitChars[n + 1]>>
  ELSE str(n \div 10) \o <<DigitChars[(n % 10) + 1]>>

\* metadata_id reading the activity date and not the question id.
metadata_id_ByDate(item) == str(item.last_activity_date)

\* StackExchange.metadata_id(item): str(item['question_id']).
metadata_id(item) == str(item.question_id)

\* Question items, as far as the metadata extractors read them.
Items ==
  [question_id : 0..MaxId, last_activity_date : 0..1]

\* ------------------------------------------------------------ actions
EmptyPayload == [x \in {} |-> 0]

Init ==
  /\ bstate = "new" /\ api_token = None /\ access_token = None
  /\ ctor = <<>> /\ client = <<>>
  /\ since_arg = Missing /\ from_date = NoDate
  /\ stream = "none" /\ error = "" /\ demand = FALSE
  /\ gq = "none" /\ page = 0 /\ data = NoData /\ questions = <<>>
  /\ fi = "none" /\ cur = NoCur /\ delivered = <<>>
  /\ calls = <<>> /\ resps = <<>> /\ sleeps = <<>> /\ clock = 0
  /\ log = <<>>
  /\ live = EmptyPayload /\ before = <<>> /\ archived = <<>>
  /\ items = <<>> /\ ids = <<>>
  /\ tquestions = 0 /\ nquestions = 0 /\ logged = <<>>

\* StackExchange(site, api_token=tok, access_token=atok), lines 71-85.
Construct(tok, atok) ==
  /\ bstate = "new"
  /\ ctor' = <<[api_token |-> tok, access_token |-> atok]>>
  /\ IF InitRaises(tok, atok)
     THEN /\ bstate' = "config_error"
          /\ UNCHANGED <<api_token, access_token>>
     ELSE /\ bstate' = "ready"
          /\ api_token' = tok
          /\ access_token' = atok
  /\ client' = <<>>
  /\ UNCHANGED <<fetchVars, stream, error, demand, gq, page, data, questions,
                 fi, cur, delivered, traceVars, archiveVars, itemVars,
                 counterVars>>

\* backend.fetch(from_date=arg), lines 97-103: the date is normalised at
\* once, the item generator is returned unstarted.
Fetch(arg) ==
  /\ bstate = "ready" /\ stream = "none"
  /\ since_arg' = arg
  /\ from_date' = NormalizeFromDate(arg)
  /\ stream' = "open"
  /\ UNCHANGED <<backendVars, client, error, demand, gq, page, data,
                 questions, fi, cur, delivered, traceVars, archiveVars, itemVars,
                 counterVars>>

\* The consumer asks for the next item.
ConsumerNext ==
  /\ stream = "open" /\ ~demand
  /\ demand' = TRUE
  /\ log' = Append(log, Event("next", 0, 0))
  /\ UNCHANGED <<backendVars, client, fetchVars, stream, error, gq, page,
                 data, questions, fi, cur, delivered, calls, resps, sleeps,
                 clock, archiveVars, itemVars,
                 counterVars>>

\* First next(): the client is created and fetch_items creates the
\* get_questions generator (lines 113-118); nothing of it has run yet.
FetchItemsStart ==
  /\ demand /\ stream = "open" /\ gq = "none"
  /\ client' = <<init_client(api_token, access_token)>>
  /\ gq' = "start"
  /\ UNCHANGED <<backendVars, fetchVars, stream, error, demand, page, data,
                 questions, fi, cur, delivered, traceVars, archiveVars, itemVars,
                 counterVars>>

\* __log_status(quota_remaining, quota_max, page_size, total): the two
\* messages it writes.
log_status(quota_remaining, quota_max, page_size, total) ==
  <<[kind |-> "rate", a |-> quota_remaining, b |-> quota_max],
    IF total # 0
    THEN [kind |-> "fetching",
          a |-> IF page_size < total THEN page_size ELSE total, b |-> total]
    ELSE [kind |-> "none", a |-> 0, b |-> 0]>>

\* get_questions, lines 256-262 for the first page and 279-283 for the
\* next: the counters are read off the envelope r and logged.
CountPage(pg, r) ==
  LET t == IF pg = 1 THEN r.counters.total ELSE tquestions
      nq == IF pg = 1 THEN r.counters.page_size
            ELSE nquestions + r.counters.page_size
  IN /\ tquestions' = t
     /\ nquestions' = nq
     /\ logged' = logged \o log_status(r.counters.quota_remaining,
                                       r.counters.quota_max, nq, t)

\* Request that catches a transport failure and asks for the page again.
Request_Retry(pg, r) ==
  /\ calls' = Append(calls, [payload |-> build_payload(client[1], pg, from_date),
                             at |-> clock])
  /\ resps' = Append(resps, [kind |-> r.kind, has_more |-> r.has_more,
                             backoff |-> r.backoff, n |-> r.n, at |-> clock])
  /\ IF r.kind = "error"
     THEN /\ gq' = "call"
          /\ log' = Append(log, Event("call", pg, 0))
          /\ UNCHANGED <<stream, error, demand, data, questions, counterVars>>
     ELSE IF r.kind = "malformed"
     THEN /\ gq' = "raised" /\ stream' = "raised" /\ error' = "parse"
          /\ demand' = FALSE
          /\ log' = log \o <<Event("call", pg, 0), Event("raise", pg, 0)>>
          /\ UNCHANGED <<data, questions, counterVars>>
     ELSE /\ gq' = "loop"
          /\ data' = r
          /\ questions' = <<pg>>
          /\ CountPage(pg, r)
          /\ log' = Append(log, Event("call", pg, 0))
          /\ UNCHANGED <<stream, error, demand>>

\* self.fetch(url, payload=__build_payload(pg, from_date)) answered by r,
\* then req.json(): lines 252-262 for the first page, 276-283 for the next.
\* Neither call sits in a try block: whatever is raised leaves the
\* generators and reaches the consumer.
Request(pg, r) ==
  /\ calls' = Append(calls, [payload |-> build_payload(client[1], pg, from_date),
                             at |-> clock])
  /\ resps' = Append(resps, [kind |-> r.kind, has_more |-> r.has_more,
                             backoff |-> r.backoff, n |-> r.n, at |-> clock])
  /\ IF r.kind = "error"
     THEN /\ gq' = "raised" /\ stream' = "raised" /\ error' = "transport"
          /\ demand' = FALSE
          /\ log' = log \o <<Event("call", pg, 0), Event("raise", pg, 0)>>
          /\ UNCHANGED <<data, questions, counterVars>>
     ELSE IF r.kind = "malformed"
     THEN /\ gq' = "raised" /\ stream' = "raised" /\ error' = "parse"
          /\ demand' = FALSE
          /\ log' = log \o <<Event("call", pg, 0), Event("raise", pg, 0)>>
          /\ UNCHANGED <<data, questions, counterVars>>
     ELSE /\ gq' = "loop"
          /\ data' = r
          /\ questions' = <<pg>>
          /\ CountPage(pg, r)
          /\ log' = Append(log, Event("call", pg, 0))
          /\ UNCHANGED <<stream, error, demand>>

\* get_questions, lines 249-262, the transport answering from R.
FirstPage(R) ==
  /\ demand /\ gq = "start"
  /\ page' = 1
  /\ \E r \in R : Request(1, r)
  /\ UNCHANGED <<backendVars, client, fetchVars, fi, cur, delivered, sleeps,
                 clock, archiveVars, itemVars>>

\* YieldPage testing has_more before the yield: the last page is dropped.
YieldPage_OnlyIfMore ==
  /\ demand /\ gq = "loop" /\ questions # <<>>
  /\ IF data.has_more
     THEN /\ gq' = "yielded"
          /\ fi' = "load"
          /\ cur' = [page |-> questions[1], n |-> 0, idx |-> 0]
          /\ log' = Append(log, Event("page", questions[1], 0))
          /\ UNCHANGED <<stream, demand>>
     ELSE /\ gq' = "done"
          /\ stream' = "exhausted"
          /\ demand' = FALSE
          /\ fi' = "none"
          /\ log' = Append(log, Event("end", 0, 0))
          /\ UNCHANGED cur
  /\ UNCHANGED <<backendVars, client, fetchVars, error, page,
                 data, questions, delivered, calls, resps, sleeps, clock,
                 archiveVars, itemVars,
                 counterVars>>

\* get_questions, lines 264-265: `while questions: yield questions`; the
\* page reaches fetch_items, which hands it to parse_questions.
YieldPage ==
  /\ demand /\ gq = "loop" /\ questions # <<>>
  /\ gq' = "yielded"
  /\ fi' = "load"
  /\ cur' = [page |-> questions[1], n |-> 0, idx |-> 0]
  /\ log' = Append(log, Event("page", questions[1], 0))
  /\ UNCHANGED <<backendVars, client, fetchVars, stream, error, demand, page,
                 data, questions, delivered, calls, resps, sleeps, clock,
                 archiveVars, itemVars,
                 counterVars>>

\* get_questions, line 264 with questions None: the generator returns, so
\* does fetch_items, and the consumer's next() ends the iteration.
ReturnPages ==
  /\ demand /\ gq = "loop" /\ questions = <<>>
  /\ gq' = "done"
  /\ stream' = "exhausted"
  /\ demand' = FALSE
  /\ fi' = "none"
  /\ log' = Append(log, Event("end", 0, 0))
  /\ UNCHANGED <<backendVars, client, fetchVars, error, page, data, questions,
                 cur, delivered, calls, resps, sleeps, clock, archiveVars, itemVars,
                 counterVars>>

\* LoadPage reading the list with a default (raw.get('items', [])): a page
\* without the list passes for an empty one.
LoadPage_Lenient ==
  /\ demand /\ fi = "load"
  /\ fi' = "items"
  /\ cur' = [cur EXCEPT !.n = data.n]
  /\ UNCHANGED <<stream, error, demand, log>>
  /\ UNCHANGED <<backendVars, client, fetchVars, gq, page, data, questions,
                 delivered, calls, resps, sleeps, clock, archiveVars, itemVars,
                 counterVars>>

\* parse_questions, lines 179-180: json.loads, then raw_questions['items'].
LoadPage ==
  /\ demand /\ fi = "load"
  /\ IF data.kind = "noitems"
     THEN /\ stream' = "raised" /\ error' = "parse" /\ demand' = FALSE
          /\ fi' = "none"
          /\ log' = Append(log, Event("raise", cur.page, 0))
          /\ UNCHANGED cur
     ELSE /\ fi' = "items"
          /\ cur' = [cur EXCEPT !.n = data.n]
          /\ UNCHANGED <<stream, error, demand, log>>
  /\ UNCHANGED <<backendVars, client, fetchVars, gq, page, data, questions,
                 delivered, calls, resps, sleeps, clock, archiveVars, itemVars,
                 counterVars>>

\* YieldItem that does not wait for the consumer: the items are collected
\* eagerly instead of being yielded one by one.
YieldItem_Eager ==
  /\ demand /\ fi = "items" /\ cur.idx < cur.n
  /\ cur' = [cur EXCEPT !.idx = cur.idx + 1]
  /\ delivered' = Append(delivered, <<cur.page, cur.idx + 1>>)
  /\ demand' = TRUE
  /\ log' = Append(log, Event("item", cur.page, cur.idx + 1))
  /\ UNCHANGED <<backendVars, client, fetchVars, stream, error, gq, page,
                 data, questions, fi, calls, resps, sleeps, clock,
                 archiveVars, itemVars,
                 counterVars>>

\* YieldItem walking the item list from its end.
YieldItem_Reversed ==
  /\ demand /\ fi = "items" /\ cur.idx < cur.n
  /\ cur' = [cur EXCEPT !.idx = cur.idx + 1]
  /\ delivered' = Append(delivered, <<cur.page, cur.n - cur.idx>>)
  /\ demand' = FALSE
  /\ log' = Append(log, Event("item", cur.page, cur.n - cur.idx))
  /\ UNCHANGED <<backendVars, client, fetchVars, stream, error, gq, page,
                 data, questions, fi, calls, resps, sleeps, clock,
                 archiveVars, itemVars,
                 counterVars>>

\* parse_questions, line 180: the next item of the page goes to the consumer.
YieldItem ==
  /\ demand /\ fi = "items" /\ cur.idx < cur.n
  /\ cur' = [cur EXCEPT !.idx = cur.idx + 1]
  /\ delivered' = Append(delivered, <<cur.page, cur.idx + 1>>)
  /\ demand' = FALSE
  /\ log' = Append(log, Event("item", cur.page, cur.idx + 1))
  /\ UNCHANGED <<backendVars, client, fetchVars, stream, error, gq, page,
                 data, questions, fi, calls, resps, sleeps, clock,
                 archiveVars, itemVars,
                 counterVars>>

\* Resume with `page += 1` left out: the same page is asked for again.
Resume_SamePage ==
  /\ demand /\ fi = "items" /\ cur.idx = cur.n /\ gq = "yielded"
  /\ questions' = <<>>
  /\ fi' = "none"
  /\ IF data.has_more
     THEN /\ page' = page
          /\ gq' = IF BackoffTruthy(data.backoff) THEN "sleep" ELSE "call"
     ELSE /\ gq' = "loop"
          /\ UNCHANGED page
  /\ log' = Append(log, Event("resume", cur.page, 0))
  /\ UNCHANGED <<backendVars, client, fetchVars, stream, error, demand, data,
                 cur, delivered, calls, resps, sleeps, clock, archiveVars, itemVars,
                 counterVars>>

\* Resume with the backoff branch left out: the next request goes out at
\* once.
Resume_NoSleep ==
  /\ demand /\ fi = "items" /\ cur.idx = cur.n /\ gq = "yielded"
  /\ questions' = <<>>
  /\ fi' = "none"
  /\ IF data.has_more
     THEN /\ page' = page + 1
          /\ gq' = "call"
     ELSE /\ gq' = "loop"
          /\ UNCHANGED page
  /\ log' = Append(log, Event("resume", cur.page, 0))
  /\ UNCHANGED <<backendVars, client, fetchVars, stream, error, demand, data,
                 cur, delivered, calls, resps, sleeps, clock, archiveVars, itemVars,
                 counterVars>>

\* Resume that goes on to the next page whether or not has_more says so
\* (as long as the remote has pages left).
Resume_IgnoresHasMore ==
  /\ demand /\ fi = "items" /\ cur.idx = cur.n /\ gq = "yielded"
  /\ questions' = <<>>
  /\ fi' = "none"
  /\ IF data.has_more \/ page < MaxPages
     THEN /\ page' = page + 1
          /\ gq' = IF BackoffTruthy(data.backoff) THEN "sleep" ELSE "call"
     ELSE /\ gq' = "loop"
          /\ UNCHANGED page
  /\ log' = Append(log, Event("resume", cur.page, 0))
  /\ UNCHANGED <<backendVars, client, fetchVars, stream, error, demand, data,
                 cur, delivered, calls, resps, sleeps, clock, archiveVars, itemVars,
                 counterVars>>

\* Resume going on while fewer questions were fetched than the remote
\* said there are (nquestions < tquestions), has_more not looked at.
Resume_ByCount ==
  /\ demand /\ fi = "items" /\ cur.idx = cur.n /\ gq = "yielded"
  /\ questions' = <<>>
  /\ fi' = "none"
  /\ IF nquestions < tquestions
     THEN /\ page' = page + 1
          /\ gq' = IF BackoffTruthy(data.backoff) THEN "sleep" ELSE "call"
     ELSE /\ gq' = "loop"
          /\ UNCHANGED page
  /\ log' = Append(log, Event("resume", cur.page, 0))
  /\ UNCHANGED <<backendVars, client, fetchVars, stream, error, demand, data,
                 cur, delivered, calls, resps, sleeps, clock, archiveVars,
                 itemVars, counterVars>>

\* get_questions resumed once the page is used up, lines 266-271.
Resume ==
  /\ demand /\ fi = "items" /\ cur.idx = cur.n /\ gq = "yielded"
  /\ questions' = <<>>
  /\ fi' = "none"
  /\ IF data.has_more
     THEN /\ page' = page + 1
          /\ gq' = IF BackoffTruthy(data.backoff) THEN "sleep" ELSE "call"
     ELSE /\ gq' = "loop"
          /\ UNCHANGED page
  /\ log' = Append(log, Event("resume", cur.page, 0))
  /\ UNCHANGED <<backendVars, client, fetchVars, stream, error, demand, data,
                 cur, delivered, calls, resps, sleeps, clock, archiveVars, itemVars,
                 counterVars>>

\* Sleep with a fixed pause (time.sleep(1)) in the place of the backoff.
Sleep_Fixed ==
  /\ demand /\ gq = "sleep"
  /\ sleeps' = Append(sleeps, [secs |-> 1, at |-> clock, before |-> page])
  /\ clock' = clock + 1
  /\ gq' = "call"
  /\ log' = Append(log, Event("sleep", page, 1))
  /\ UNCHANGED <<backendVars, client, fetchVars, stream, error, demand, page,
                 data, questions, fi, cur, delivered, calls, resps,
                 archiveVars, itemVars,
                 counterVars>>

\* get_questions, line 274: time.sleep(float(backoff)).
Sleep ==
  /\ demand /\ gq = "sleep"
  /\ sleeps' = Append(sleeps, [secs |-> BackoffSecs(data.backoff),
                               at |-> clock, before |-> page])
  /\ clock' = clock + BackoffSecs(data.backoff)
  /\ gq' = "call"
  /\ log' = Append(log, Event("sleep", page, BackoffSecs(data.backoff)))
  /\ UNCHANGED <<backendVars, client, fetchVars, stream, error, demand, page,
                 data, questions, fi, cur, delivered, calls, resps,
                 archiveVars, itemVars,
                 counterVars>>

\* get_questions, lines 276-283, the transport answering from R.
NextPage(R) ==
  /\ demand /\ gq = "call"
  /\ \E r \in R : Request(page, r)
  /\ UNCHANGED <<backendVars, client, fetchVars, page, fi, cur, delivered,
                 sleeps, clock, archiveVars, itemVars>>

\* sanitize_for_archive(url, headers, live), lines 296-302: the mapping
\* handed in is popped in place and is the mapping returned.
SanitizeForArchive ==
  /\ before' = <<live>>
  /\ live' = sanitize_for_archive(live)
  /\ archived' = <<live'>>
  /\ UNCHANGED <<backendVars, client, fetchVars, stream, error, demand, gq,
                 page, data, questions, fi, cur, delivered, traceVars,
                 itemVars, counterVars>>

\* StackExchange.metadata_id(items[k]), lines 139-143.
MetadataId(k) ==
  /\ Len(ids[k]) < MaxIdCalls
  /\ ids' = [ids EXCEPT ![k] = Append(@, metadata_id(items[k]))]
  /\ UNCHANGED <<backendVars, client, fetchVars, stream, error, demand, gq,
                 page, data, questions, fi, cur, delivered, traceVars,
                 archiveVars, items, counterVars>>

\* ------------------------------------------------------------ specifications
\* The whole life of a backend: construction, one fetch, the traversal
\* against any remote of at most MaxPages pages.
FromDatesCore == {Missing, Datetime(MaxTick, <<0>>)}
TokensCore == {None, "aaa"}
AccessTokensCore == {None, "bbb"}

Next ==
  \/ \E tok \in TokensCore, atok \in AccessTokensCore : Construct(tok, atok)
  \/ \E arg \in FromDatesCore : Fetch(arg)
  \/ ConsumerNext
  \/ FetchItemsStart
  \/ FirstPage(Responses(1))
  \/ YieldPage
  \/ ReturnPages
  \/ LoadPage
  \/ YieldItem
  \/ Resume
  \/ Sleep
  \/ NextPage(Responses(page))

Spec == Init /\ [][Next]_vars

\* One traversal, from the state StackExchange(site, api_token="aaa").fetch()
\* leaves, with a consumer that keeps asking: the thread runs on whenever it
\* can, and the consumer calls next() again whenever it holds an item.
InitLive ==
  /\ bstate = "ready" /\ api_token = "aaa" /\ access_token = None
  /\ ctor = <<[api_token |-> "aaa", access_token |-> None]>>
  /\ client = <<>>
  /\ since_arg = Missing /\ from_date = NormalizeFromDate(Missing)
  /\ stream = "open" /\ error = "" /\ demand = FALSE
  /\ gq = "none" /\ page = 0 /\ data = NoData /\ questions = <<>>
  /\ fi = "none" /\ cur = NoCur /\ delivered = <<>>
  /\ calls = <<>> /\ resps = <<>> /\ sleeps = <<>> /\ clock = 0
  /\ log = <<>>
  /\ live = EmptyPayload /\ before = <<>> /\ archived = <<>>
  /\ items = <<>> /\ ids = <<>>
  /\ tquestions = 0 /\ nquestions = 0 /\ logged = <<>>

Traverse ==
  \/ FetchItemsStart
  \/ FirstPage(Responses(1))
  \/ YieldPage
  \/ ReturnPages
  \/ LoadPage
  \/ YieldItem
  \/ Resume
  \/ Sleep
  \/ NextPage(Responses(page))

NextLive == ConsumerNext \/ Traverse

SpecLive ==
  InitLive /\ [][NextLive]_vars /\ WF_vars(ConsumerNext) /\ WF_vars(Traverse)

\* The queries sent, for every credential pair and every from_date, against
\* a remote whose pages are well formed and hold one item each.
PlainResponses(p) ==
  {r \in Responses(p) : r.kind = "ok" /\ r.n = 1 /\ r.backoff = <<>>}

NextQuery ==
  \/ \E tok \in TokenValues, atok \in AccessTokenValues : Construct(tok, atok)
  \/ \E arg \in FromDates : Fetch(arg)
  \/ ConsumerNext
  \/ FetchItemsStart
  \/ FirstPage(PlainResponses(1))
  \/ YieldPage
  \/ ReturnPages
  \/ LoadPage
  \/ YieldItem
  \/ Resume
  \/ NextPage(PlainResponses(page))

SpecQuery == Init /\ [][NextQuery]_vars

\* The traversal against remotes that answer every page with a well-formed
\* body and report any counters.
CounterResponses(p) ==
  {[kind |-> "ok", has_more |-> h, backoff |-> b, n |-> 1, counters |-> c] :
     h \in {x \in BOOLEAN : x => p < MaxPages}, b \in {<<>>, <<2>>},
     c \in Counters}

NextCounters ==
  \/ ConsumerNext
  \/ FetchItemsStart
  \/ FirstPage(CounterResponses(1))
  \/ YieldPage
  \/ ReturnPages
  \/ LoadPage
  \/ YieldItem
  \/ Resume
  \/ Sleep
  \/ NextPage(CounterResponses(page))

SpecCounters == InitLive /\ [][NextCounters]_vars

\* sanitize_for_archive applied to any payload: every query the client can
\* build, cut down to any subset of the keys below.
ArchiveKeys == {PPAGE, PKEY, PACCESSTOKEN, PMIN, PSITE}
Restrict(p, S) == [x \in (DOMAIN p) \cap S |-> p[x]]
ArchivePayloads ==
  {Restrict(build_payload(init_client(tok, atok), pg, fd), S) :
     tok \in TokenValues, atok \in AccessTokenValues, pg \in 1..MaxPages,
     fd \in {NoDate, DEFAULT_DATETIME}, S \in SUBSET ArchiveKeys}

InitArchive ==
  /\ bstate = "new" /\ api_token = None /\ access_token = None
  /\ ctor = <<>> /\ client = <<>>
  /\ since_arg = Missing /\ from_date = NoDate
  /\ stream = "none" /\ error = "" /\ demand = FALSE
  /\ gq = "none" /\ page = 0 /\ data = NoData /\ questions = <<>>
  /\ fi = "none" /\ cur = NoCur /\ delivered = <<>>
  /\ calls = <<>> /\ resps = <<>> /\ sleeps = <<>> /\ clock = 0
  /\ log = <<>>
  /\ live \in ArchivePayloads /\ before = <<>> /\ archived = <<>>
  /\ items = <<>> /\ ids = <<>>
  /\ tquestions = 0 /\ nquestions = 0 /\ logged = <<>>

NextArchive == SanitizeForArchive

SpecArchive == InitArchive /\ [][NextArchive]_vars

\* metadata_id applied, in any order and more than once, to any two items.
InitItems ==
  /\ bstate = "new" /\ api_token = None /\ access_token = None
  /\ ctor = <<>> /\ client = <<>>
  /\ since_arg = Missing /\ from_date = NoDate
  /\ stream = "none" /\ error = "" /\ demand = FALSE
  /\ gq = "none" /\ page = 0 /\ data = NoData /\ questions = <<>>
  /\ fi = "none" /\ cur = NoCur /\ delivered = <<>>
  /\ calls = <<>> /\ resps = <<>> /\ sleeps = <<>> /\ clock = 0
  /\ log = <<>>
  /\ live = EmptyPayload /\ before = <<>> /\ archived = <<>>
  /\ items \in [1..2 -> Items]
  /\ ids = [k \in 1..2 |-> <<>>]
  /\ tquestions = 0 /\ nquestions = 0 /\ logged = <<>>

NextItems == \E k \in 1..2 : MetadataId(k)

SpecItems == InitItems /\ [][NextItems]_vars

\* ------------------------------------------------------------ properties
\* What the remote held on page p, and everything it held on pages 1..k.
PageItems(p, n) == [j \in 1..n |-> <<p, j>>]

RECURSIVE ItemsUpTo(_)
ItemsUpTo(k) ==
  IF k = 0 THEN <<>> ELSE ItemsUpTo(k - 1) \o PageItems(k, resps[k].n)

\* C1: the transport calls of a traversal carry page = 1, 2, ..., in that
\* order; a call for page i+1 is made only when page i said has_more; a
\* fully consumed traversal ends on the first page without has_more, so N
\* pages make exactly N calls.
C1_PagesInOrder ==
  /\ Len(resps) = Len(calls)
  /\ \A i \in 1..Len(calls) : calls[i].payload[PPAGE] = i
  /\ \A i \in 1..(Len(calls) - 1) : resps[i].kind = "ok" /\ resps[i].has_more
  /\ stream = "exhausted" =>
       /\ Len(calls) >= 1
       /\ resps[Len(calls)].kind = "ok"
       /\ ~resps[Len(calls)].has_more

C1_Witness ==
  /\ stream = "exhausted"
  /\ Len(calls) >= 3
  /\ calls[3].payload[PPAGE] = 3

\* C2: the call for page k+1 is made no earlier than backoff(k) seconds
\* after the answer for page k came in, on the clock that only time.sleep
\* advances.
C2_BackoffHonoured ==
  \A i \in 2..Len(calls) :
    calls[i].at >= resps[i - 1].at + BackoffSecs(resps[i - 1].backoff)

C2_Witness ==
  \E i \in 2..Len(calls) :
    /\ resps[i - 1].backoff = <<2>>
    /\ calls[i].at = resps[i - 1].at + 2

\* How many items of page p were handed over before the i-th event.
ItemsBefore(i, p) ==
  Cardinality({k \in 1..(i - 1) : log[k].ev = "item" /\ log[k].page = p})

\* C3: the traversal is driven by demand.  A transport call is made only
\* while a next() of the consumer is being served (so none before the first
\* next()), the call for page N+1 only once every item of page N has been
\* handed over, and a consumer at rest whose last item came from page j has
\* caused no more than j calls.
C3_DemandDriven ==
  /\ \A i \in 1..Len(log) : log[i].ev = "call" =>
       /\ \E j \in 1..(i - 1) :
            /\ log[j].ev = "next"
            /\ \A k \in (j + 1)..(i - 1) : log[k].ev \notin {"item", "next"}
       /\ log[i].page > 1 =>
            ItemsBefore(i, log[i].page - 1) = resps[log[i].page - 1].n
  /\ (~demand /\ stream \in {"none", "open"} /\ delivered = <<>>) => calls = <<>>
  /\ (~demand /\ stream = "open" /\ delivered # <<>>) =>
       Len(calls) <= delivered[Len(delivered)][1]

C3_Witness ==
  /\ ~demand /\ stream = "open"
  /\ Len(calls) = 2
  /\ resps[1].n = 2
  /\ delivered = <<<<1, 1>>, <<1, 2>>, <<2, 1>>>>

\* C9: when the transport fails on page k the failure reaches the consumer
\* as raised; the failed call is the last thing the fetch did (page k is
\* not asked for again, no call and no sleep follows), and the items of
\* pages 1..k-1, all handed over before, stay handed over.
C9_TransportFailureEnds ==
  \A k \in 1..Len(resps) : resps[k].kind = "error" =>
    /\ k = Len(resps) /\ Len(calls) = k
    /\ stream = "raised" /\ error = "transport" /\ gq = "raised" /\ ~demand
    /\ Len(log) >= 2
    /\ log[Len(log)] = Event("raise", k, 0)
    /\ log[Len(log) - 1] = Event("call", k, 0)
    /\ Cardinality({i \in 1..Len(log) : log[i] = Event("call", k, 0)}) = 1
    /\ delivered = ItemsUpTo(k - 1)

C9_Witness ==
  /\ Len(resps) = 3 /\ resps[3].kind = "error"
  /\ resps[1].n = 2 /\ resps[2].n = 1
  /\ Len(sleeps) = 2
  /\ stream = "raised"

\* How many items of page p the consumer holds.
DeliveredOf(p) ==
  Cardinality({i \in 1..Len(delivered) : delivered[i][1] = p})

\* C10: when the body of page k is not JSON, or is JSON without the item
\* list, the fetch raises a parse error: no item of page k is ever handed
\* over, every item of pages 1..k-1 has been, every page is handed over
\* whole or not at all, and nothing is asked of the remote afterwards.
C10_ParseFailure ==
  \A k \in 1..Len(resps) : resps[k].kind \in {"malformed", "noitems"} =>
    /\ k = Len(resps)
    /\ DeliveredOf(k) = 0
    /\ delivered = ItemsUpTo(k - 1)
    /\ ~demand =>
         /\ stream = "raised" /\ error = "parse"
         /\ log[Len(log)] = Event("raise", k, 0)
         /\ \A p \in 1..k : DeliveredOf(p) \in {0, resps[p].n}

C10_Witness ==
  /\ Len(resps) = 2 /\ resps[2].kind = "malformed" /\ resps[2].n = 2
  /\ resps[1].n = 2
  /\ stream = "raised" /\ error = "parse"
  /\ delivered = <<<<1, 1>>, <<1, 2>>>>

\* C4: whatever payload sanitize_for_archive is given, the payload it
\* returns (the one archived) holds neither `key` nor `access_token`.
C4_ArchivedWithoutCredentials ==
  archived # <<>> =>
    /\ PKEY \notin DOMAIN archived[1]
    /\ PACCESSTOKEN \notin DOMAIN archived[1]

C4_Witness ==
  /\ archived # <<>>
  /\ PKEY \in DOMAIN before[1] /\ PACCESSTOKEN \in DOMAIN before[1]
  /\ before[1][PKEY] = "aaa" /\ before[1][PACCESSTOKEN] = "bbb"

\* C5 as claimed: once sanitize_for_archive has returned, the mapping the
\* caller handed in still holds every entry it held before the call.
C5_LivePayloadUntouched ==
  archived # <<>> => live = before[1]

\* C5: sanitize_for_archive works in place.  Once it has returned, the
\* mapping the caller handed in is the mapping returned; it has lost `key`
\* and `access_token` and nothing else, and every entry left kept its value.
C5_SanitizedInPlace ==
  archived # <<>> =>
    /\ live = archived[1]
    /\ DOMAIN live = (DOMAIN before[1]) \ {PKEY, PACCESSTOKEN}
    /\ \A k \in DOMAIN live : live[k] = before[1][k]

C5_Witness ==
  /\ archived # <<>>
  /\ DOMAIN before[1] = ArchiveKeys
  /\ DOMAIN live = {PPAGE, PMIN, PSITE}

\* C6 as claimed: with the since-timestamp unset (left out, None, empty or
\* the default sentinel) the query for page 1 holds no `min`.
C6_UnsetOmitsMin ==
  (calls # <<>> /\ Unset(since_arg)) => PMIN \notin DOMAIN calls[1].payload

\* C6: with the since-timestamp unset (left out, None, empty or the default
\* sentinel) fetch hands the sentinel instant on, and the query for page 1
\* holds `min`, equal to the sentinel's UNIX seconds, 0.
C6_UnsetSendsSentinelMin ==
  (calls # <<>> /\ Unset(since_arg)) =>
    /\ PMIN \in DOMAIN calls[1].payload
    /\ calls[1].payload[PMIN] = 0

C6_Witness ==
  /\ calls # <<>>
  /\ since_arg = NoDate
  /\ calls[1].payload[PPAGE] = 1

\* The instant a datetime argument stands for, in ticks since the epoch (a
\* naive datetime is read as UTC).
SinceTicks(arg) ==
  IF arg.tz = <<>> THEN arg.wall ELSE arg.wall - arg.tz[1] * TicksPerSecond

\* C7 as claimed: for a concrete since-instant t every page query holds
\* min = floor(t in seconds), that is min <= t < min + 1.
C7_MinIsFloor ==
  \A i \in 1..Len(calls) : since_arg.kind = "datetime" =>
    /\ PMIN \in DOMAIN calls[i].payload
    /\ calls[i].payload[PMIN] * TicksPerSecond <= SinceTicks(since_arg)
    /\ SinceTicks(since_arg) < (calls[i].payload[PMIN] + 1) * TicksPerSecond

\* C7: for a concrete since-instant t every page query holds min = t in
\* seconds cut toward zero: min <= t < min + 1 from the epoch on (the
\* floor), min - 1 < t <= min before the epoch (the ceiling, one more than
\* the floor when t has a fractional second).
C7_MinIsTruncation ==
  \A i \in 1..Len(calls) : since_arg.kind = "datetime" =>
    /\ PMIN \in DOMAIN calls[i].payload
    /\ LET m == calls[i].payload[PMIN]
           t == SinceTicks(since_arg)
       IN IF t >= 0
          THEN m * TicksPerSecond <= t /\ t < (m + 1) * TicksPerSecond
          ELSE (m - 1) * TicksPerSecond < t /\ t <= m * TicksPerSecond

C7_Witness ==
  /\ Len(calls) >= 2
  /\ since_arg.kind = "datetime"
  /\ SinceTicks(since_arg) < 0
  /\ SinceTicks(since_arg) % TicksPerSecond # 0
  /\ calls[2].payload[PMIN] * TicksPerSecond > SinceTicks(since_arg)

\* C8: a constructor call with an access token and no app key ends in the
\* configuration error, with no client made and no transport call, ever;
\* and a backend that was constructed has an app key whenever it has an
\* access token.
C8_TokenNeedsKey ==
  /\ (ctor # <<>> /\ ~Truthy(ctor[1].api_token) /\ Truthy(ctor[1].access_token))
       => bstate = "config_error"
  /\ bstate = "config_error" =>
       client = <<>> /\ calls = <<>> /\ log = <<>> /\ stream = "none"
  /\ bstate = "ready" =>
       /\ api_token = ctor[1].api_token /\ access_token = ctor[1].access_token
       /\ Truthy(access_token) => Truthy(api_token)

C8_Witness ==
  /\ bstate = "config_error"
  /\ ctor = <<[api_token |-> "", access_token |-> "bbb"]>>

\* The items of the well-formed pages among pages 1..k, page after page.
RECURSIVE OkItemsUpTo(_)
OkItemsUpTo(k) ==
  IF k = 0 THEN <<>>
  ELSE OkItemsUpTo(k - 1)
         \o (IF resps[k].kind = "ok" THEN PageItems(k, resps[k].n) ELSE <<>>)

\* C11: what the consumer has received is always the beginning of the
\* pages' item lists laid end to end in page order (nothing dropped,
\* doubled or out of place, no item of page k+1 before the last of page k),
\* and a fully consumed fetch has delivered all of it.
C11_ItemsInPageOrder ==
  /\ Len(delivered) <= Len(OkItemsUpTo(Len(resps)))
  /\ delivered = SubSeq(OkItemsUpTo(Len(resps)), 1, Len(delivered))
  /\ \A i, j \in 1..Len(delivered) : i < j =>
       \/ delivered[i][1] < delivered[j][1]
       \/ delivered[i][1] = delivered[j][1] /\ delivered[i][2] < delivered[j][2]
  /\ stream = "exhausted" => delivered = ItemsUpTo(Len(resps))

C11_Witness ==
  /\ stream = "exhausted"
  /\ delivered = <<<<1, 1>>, <<1, 2>>, <<2, 1>>, <<2, 2>>, <<3, 1>>>>

\* Where in the log the events e of page p stand.
EventsOf(e, p) == {i \in 1..Len(log) : log[i].ev = e /\ log[i].page = p}

\* C12: every answer that came in and was decoded is yielded as one raw
\* page, once, right after its call and so in page order; the yield of page
\* k comes before has_more of page k is looked at and before any sleep or
\* call for page k+1; the last page (has_more false) is yielded too.
C12_YieldBeforeContinue ==
  /\ \A k \in 1..Len(resps) : resps[k].kind \in {"ok", "noitems"} =>
       /\ Cardinality(EventsOf("page", k)) <= 1
       /\ \A i \in EventsOf("call", k) :
            i = Len(log) \/ log[i + 1] = Event("page", k, 0)
       /\ \A j \in EventsOf("resume", k) \cup EventsOf("sleep", k + 1)
                     \cup EventsOf("call", k + 1) :
            \E i \in EventsOf("page", k) : i < j
  /\ \A i \in 1..Len(log) : log[i].ev = "page" =>
       /\ i > 1 /\ log[i - 1] = Event("call", log[i].page, 0)
       /\ resps[log[i].page].kind \in {"ok", "noitems"}
  /\ stream = "exhausted" =>
       \A k \in 1..Len(resps) : Cardinality(EventsOf("page", k)) = 1

C12_Witness ==
  /\ stream = "exhausted"
  /\ Len(resps) = 3
  /\ ~resps[3].has_more
  /\ EventsOf("page", 3) # {}
  /\ EventsOf("sleep", 3) # {}

\* C13: the page sequence is finite.  A fetch whose consumer keeps asking
\* comes to an end, and it ends exhausted once a well-formed page without
\* has_more has come in; after the first page without has_more there is no
\* transport call and no sleep.
C13_EndsWithoutHasMore ==
  /\ [](\A k \in 1..Len(resps) :
          (resps[k].kind \in {"ok", "noitems"} /\ ~resps[k].has_more) =>
            /\ k = Len(resps)
            /\ \A i \in EventsOf("call", k) : \A j \in (i + 1)..Len(log) :
                 log[j].ev \notin {"call", "sleep"})
  /\ (stream = "open") ~> (stream \in {"exhausted", "raised"})
  /\ (Len(resps) > 0 /\ resps[Len(resps)].kind = "ok"
        /\ ~resps[Len(resps)].has_more) ~> (stream = "exhausted")

C13_Witness ==
  /\ stream = "exhausted"
  /\ Len(resps) = 3
  /\ resps[3].backoff = <<2>>
  /\ Len(sleeps) = 2

\* The backoff seconds the pages 1..k asked for, added up.
RECURSIVE SumBackoff(_)
SumBackoff(k) ==
  IF k = 0 THEN 0 ELSE SumBackoff(k - 1) + BackoffSecs(resps[k].backoff)

\* C16: every sleep stands between the has_more test of a page k that said
\* has_more with a non-zero backoff b and the call for page k+1, and lasts
\* exactly b; there is one such sleep for every such page and no other (none
\* after the last page, none without backoff), so a fully consumed traversal
\* of N pages has slept the sum of the backoffs of pages 1..N-1.
C16_SleepsAsInstructed ==
  /\ \A s \in 1..Len(sleeps) :
       LET p == sleeps[s].before
       IN /\ p \in 2..(Len(calls) + 1)
          /\ resps[p - 1].has_more
          /\ BackoffTruthy(resps[p - 1].backoff)
          /\ sleeps[s].secs = resps[p - 1].backoff[1]
          /\ \A t \in 1..Len(sleeps) : sleeps[t].before = p => t = s
  /\ \A i \in 2..Len(calls) :
       BackoffTruthy(resps[i - 1].backoff) <=> \E s \in 1..Len(sleeps) : sleeps[s].before = i
  /\ \A j \in 1..Len(log) : log[j].ev = "sleep" =>
       /\ j > 1 /\ log[j - 1] = Event("resume", log[j].page - 1, 0)
       /\ j = Len(log) \/ log[j + 1] = Event("call", log[j].page, 0)
  /\ stream = "exhausted" => clock = SumBackoff(Len(resps) - 1)

C16_Witness ==
  /\ stream = "exhausted"
  /\ Len(resps) = 3
  /\ resps[1].backoff = <<2>> /\ resps[2].backoff = <<0>>
  /\ resps[3].backoff = <<2>>
  /\ clock = 2 /\ Len(sleeps) = 1

\* C14: a traversal whose from_date was left out, None or empty is the
\* traversal with the sentinel date given explicitly: fetch_items receives the
\* same from_date, so every call carries the query the sentinel gives for its
\* page, and the items are those of the pages answered, in order.
C14_UnsetIsSentinel ==
  (stream # "none" /\ Unset(since_arg)) =>
    /\ from_date = datetime_to_utc(DEFAULT_DATETIME)
    /\ \A i \in 1..Len(calls) :
         calls[i].payload =
           build_payload(init_client(api_token, access_token), i,
                         datetime_to_utc(DEFAULT_DATETIME))
    /\ Len(delivered) <= Len(ItemsUpTo(Len(resps)))
    /\ delivered = SubSeq(ItemsUpTo(Len(resps)), 1, Len(delivered))

C14_Witness ==
  /\ since_arg = EmptyDate
  /\ stream = "exhausted"
  /\ Len(calls) = MaxPages
  /\ Len(delivered) = MaxPages

\* C18: the queries of one traversal differ only in `page`: with `page` taken
\* out they are one and the same mapping, which carries pagesize, order
\* 'asc', sort 'activity', tagged, site, key and filter, and the same min and
\* access_token on every page or on none; page i's query has page = i; and a
\* query once sent is never altered by a later step.
C18_QueriesDifferOnlyInPage ==
  /\ [](\A i \in 1..Len(calls) :
          LET p == calls[i].payload
          IN /\ p[PPAGE] = i
             /\ {PPAGESIZE, PORDER, PSORT, PTAGGED, PSITE, PKEY, PFILTER}
                  \subseteq DOMAIN p
             /\ p[PPAGESIZE] = MAX_QUESTIONS
             /\ p[PORDER] = "asc" /\ p[PSORT] = "activity"
             /\ p[PKEY] = api_token
             /\ p[PFILTER] = VQUESTIONS_FILTER
             /\ \A j \in 1..Len(calls) :
                  Pop(calls[j].payload, PPAGE) = Pop(p, PPAGE))
  /\ [][/\ Len(calls') >= Len(calls)
        /\ \A i \in 1..Len(calls) : calls'[i] = calls[i]]_vars

C18_Witness ==
  /\ Len(calls) = MaxPages
  /\ PMIN \in DOMAIN calls[MaxPages].payload
  /\ calls[MaxPages].payload[PMIN] = 1
  /\ PACCESSTOKEN \in DOMAIN calls[MaxPages].payload

\* C19: every request of a backend whose construction succeeded carries
\* `key`; it carries access_token exactly when a non-empty access token was
\* given to the constructor, with that value, and then its key is the
\* non-empty app key given to the constructor.
C19_AccessTokenNeedsKey ==
  \A i \in 1..Len(calls) :
    LET p == calls[i].payload
    IN /\ PKEY \in DOMAIN p
       /\ PACCESSTOKEN \in DOMAIN p <=> Truthy(ctor[1].access_token)
       /\ PACCESSTOKEN \in DOMAIN p =>
            /\ p[PACCESSTOKEN] = ctor[1].access_token
            /\ Truthy(p[PKEY])
            /\ p[PKEY] = ctor[1].api_token

C19_Witness ==
  /\ Len(calls) >= 2
  /\ PACCESSTOKEN \in DOMAIN calls[2].payload
  /\ calls[2].payload[PKEY] = "aaa"
  /\ calls[2].payload[PACCESSTOKEN] = "bbb"

\* The number a string of decimal digits stands for.
DigitValue(c) == (CHOOSE d \in 1..10 : DigitChars[d] = c) - 1

RECURSIVE DecimalValue(_)
DecimalValue(s) ==
  IF s = <<>> THEN 0
  ELSE 10 * DecimalValue(SubSeq(s, 1, Len(s) - 1)) + DigitValue(s[Len(s)])

IsDecimalOf(s, n) ==
  /\ Len(s) >= 1
  /\ \A i \in 1..Len(s) : \E d \in 1..10 : s[i] = DigitChars[d]
  /\ Len(s) > 1 => s[1] # "0"
  /\ DecimalValue(s) = n

\* C15: whatever metadata_id returned for an item is the decimal string of
\* its question_id; two results are the same string exactly when the
\* question_ids are the same, whether they come from one item asked twice,
\* from two items that agree on question_id and differ elsewhere, or from
\* items with different question_ids.
C15_IdentityIsQuestionId ==
  \A a \in DOMAIN items, b \in DOMAIN items :
    \A i \in 1..Len(ids[a]), j \in 1..Len(ids[b]) :
      /\ IsDecimalOf(ids[a][i], items[a].question_id)
      /\ (items[a].question_id = items[b].question_id)
           <=> (ids[a][i] = ids[b][j])

C15_Witness ==
  /\ items # <<>>
  /\ items[1].question_id = 10 /\ items[2].question_id = 10
  /\ items[1].last_activity_date # items[2].last_activity_date
  /\ Len(ids[1]) = 2 /\ Len(ids[2]) = 2
  /\ ids[1][1] = <<"1", "0">> /\ ids[2][2] = <<"1", "0">>
\* C17: whatever counters (quota_remaining, quota_max, page_size, total) the
\* pages report, the calls, the sleeps and the pages yielded are those that
\* body, has_more and backoff of the pages fix: call i carries the query of
\* page i at the time the backoffs of pages 1..i-1 add up to; what follows
\* the has_more test of page k is a sleep or call for page k+1 exactly when
\* page k said has_more (a sleep exactly when it also gave a backoff) and
\* the end of the traversal otherwise; every page answered is yielded once
\* and its items delivered; nothing is raised.
C17_CountersDoNotSteer ==
  /\ stream # "raised"
  /\ Len(resps) = Len(calls)
  /\ \A i \in 1..Len(calls) :
       /\ calls[i].payload = build_payload(client[1], i, from_date)
       /\ calls[i].at = SumBackoff(i - 1)
       /\ i < Len(calls) => resps[i].has_more
       /\ Cardinality(EventsOf("page", i)) =
            (IF \E j \in EventsOf("call", i) : j = Len(log) THEN 0 ELSE 1)
  /\ \A j \in 1..Len(log) : log[j].ev = "resume" /\ j < Len(log) =>
       LET k == log[j].page
       IN log[j + 1] =
            IF resps[k].has_more
            THEN IF BackoffTruthy(resps[k].backoff)
                 THEN Event("sleep", k + 1, resps[k].backoff[1])
                 ELSE Event("call", k + 1, 0)
            ELSE Event("end", 0, 0)
  /\ \A s \in 1..Len(sleeps) :
       /\ sleeps[s].before \in 2..(Len(calls) + 1)
       /\ sleeps[s].secs = BackoffSecs(resps[sleeps[s].before - 1].backoff)
       /\ sleeps[s].at = SumBackoff(sleeps[s].before - 2)
       /\ \A t \in 1..Len(sleeps) : sleeps[t].before = sleeps[s].before => t = s
  /\ clock = SumBackoff(IF Len(resps) = 0 THEN 0
                        ELSE IF gq = "call" THEN Len(resps)
                        ELSE Len(resps) - 1)
  /\ Len(delivered) <= Len(ItemsUpTo(Len(resps)))
  /\ delivered = SubSeq(ItemsUpTo(Len(resps)), 1, Len(delivered))
  /\ stream = "exhausted" =>
       /\ ~resps[Len(resps)].has_more
       /\ delivered = ItemsUpTo(Len(resps))

C17_Witness ==
  /\ stream = "exhausted"
  /\ Len(calls) = MaxPages
  /\ Len(sleeps) = 1
  /\ tquestions = 0 /\ nquestions = MaxPages * MaxItems
  /\ \E i \in 1..Len(logged) : logged[i].kind = "none"
  /\ logged[1] # logged[3]

====
